---------------------------- MODULE Spec2Model ----------------------------
(***************************************************************************)
(* A model of streamin-conv's pipeline engine (src/src/commands): the      *)
(* Session that owns a list of stage configurations, start() that builds   *)
(* them and schedules a background task, the background task that bumps    *)
(* the stage counter and runs one child process per stage, the detached    *)
(* stdout reader of every child that resets and flushes telemetry into the *)
(* shared SessionInfoInt, and get_info() that derives percent_complete.    *)
(*                                                                         *)
(* Durations are counted in ticks of 1/TicksPerSec second so that the      *)
(* truncation of Duration::as_secs() is visible.  percent_complete is an   *)
(* f64 in the program; here it is the exact rational n/d (or NaN / Inf for *)
(* a division by a zero number of seconds).  The rounding of IEEE-754      *)
(* arithmetic is not modelled.                                             *)
(*                                                                         *)
(* Spec follows whole sessions (several stages, several start() calls) with *)
(* lines reduced to their parts.  SpecInfo applies get_info() to arbitrary  *)
(* snapshots.  SpecCfg applies validate() and build() to configurations.    *)
(* SpecSpawn follows one stage statement by statement with the write lock   *)
(* of the snapshot; SpecParse and SpecFlush run its stdout task alone on    *)
(* the text of short streams of every kind of line and of long streams.     *)
(* SpecApi follows chain() and start() alone; SpecSpawnLive is SpecSpawn    *)
(* under the fairness of the runtime's scheduling.                         *)
(***************************************************************************)
EXTENDS Integers, Sequences, FiniteSets, TLC

VARIABLES
    commands,   \* Session.commands: the pending stage list
    info,       \* Session.session_info: the shared SessionInfoInt
    duration,   \* Session.media_info.duration, in ticks
    ret,        \* what the most recent start() call returned
    bg,         \* the background tasks scheduled by start(), in order
    procs,      \* the child processes spawned so far, each with its stdout reader
    out,        \* the SessionInfo returned by an explicit get_info() call
    cfg,        \* a stage configuration and what validate() and build() return on it
    sp          \* one spawn() call seen step by step: the child, its three tasks, the lock

vars == <<commands, info, duration, ret, bg, procs, out, cfg, sp>>

(***************************************************************************)
(* Bounds of the model.                                                    *)
(***************************************************************************)
MaxStages == 2      \* longest stage list a caller assembles
MaxStarts == 2      \* background tasks that may be scheduled on one Session
MaxLines  == 2      \* stdout lines read from the children of one Session
MaxTick   == 4      \* largest telemetry time stamp / media duration, in ticks

TicksPerSec == 2    \* resolution of the modelled Duration

(***************************************************************************)
(* Stage configurations: ffmpeg::Config, mp4fragment::Config and           *)
(* mp4dash::Config behind the MediaCommandConfig trait.                    *)
(***************************************************************************)
Encoders == {"None", "Video", "Audio", "Subtitle"}

CodecOpts(enc, br, en, c) ==
    [encoder |-> enc, bitrate |-> br, enabled |-> en, crf |-> c,
     channels |-> -1, colour_8_bit |-> FALSE]

DefaultOpts == CodecOpts("None", -1, TRUE, -1)

\* the source file of the model and Option::None for out_file
SourceFile == "in.mkv"
NoPath == ""

FfmpegConfig(v, a, s, cf) ==
    [kind |-> "ffmpeg", video |-> v, audio |-> a, subtitle |-> s,
     file |-> SourceFile, out_file |-> NoPath, tracks |-> <<>>,
     file_exists |-> TRUE, can_fail |-> cf]

FragmentConfig(exists, cf) ==
    [kind |-> "mp4fragment", video |-> DefaultOpts, audio |-> DefaultOpts,
     subtitle |-> DefaultOpts,
     file |-> SourceFile, out_file |-> NoPath, tracks |-> <<>>,
     file_exists |-> exists, can_fail |-> cf]

DashConfig ==
    [kind |-> "mp4dash", video |-> DefaultOpts, audio |-> DefaultOpts,
     subtitle |-> DefaultOpts,
     file |-> SourceFile, out_file |-> NoPath, tracks |-> <<>>,
     file_exists |-> TRUE, can_fail |-> FALSE]

Disabled == CodecOpts("None", -1, FALSE, -1)

\* The stage lists of the model are built from named configurations:
\*   VidCopy      the video stage of dash.rs without transcoding: video is
\*                passed through, audio and subtitles are dropped
\*   NoStreams    an encoding stage with every group disabled
\*   FragMissing  a fragmenting stage whose input file does not exist
SampleStages == {"VidCopy", "NoStreams", "FragMissing"}

Config(name) ==
    CASE name = "VidCopy"     -> FfmpegConfig(DefaultOpts, Disabled, Disabled, FALSE)
      [] name = "NoStreams"   -> FfmpegConfig(Disabled, Disabled, Disabled, FALSE)
      [] name = "FragMissing" -> FragmentConfig(FALSE, FALSE)

Ok == "Ok"

\* validate() as it would be if the CRF check looked at the subtitle group only
ffmpeg_validate_subtitle_crf_only(c) ==
    IF c.video.encoder \in {"Audio", "Subtitle"}
      THEN "video cannot have an audio or subtitle encoder"
    ELSE IF c.audio.encoder \in {"Video", "Subtitle"}
      THEN "audio cannot have an video or subtitle encoder"
    ELSE IF c.subtitle.encoder \in {"Audio", "Video"}
      THEN "subtitle cannot have an audio or video encoder"
    ELSE IF ~c.video.enabled /\ ~c.audio.enabled /\ ~c.subtitle.enabled
      THEN "no streams are enabled"
    ELSE IF c.subtitle.crf > -1
      THEN "audio and subtitles cannot have a crf"
    ELSE IF (c.video.bitrate > -1 \/ c.video.crf > -1) /\ c.video.encoder = "None"
      THEN "bitrate and crf cannot be set without an encoder"
    ELSE Ok

ffmpeg_validate(c) ==
    IF c.video.encoder \in {"Audio", "Subtitle"}
      THEN "video cannot have an audio or subtitle encoder"
    ELSE IF c.audio.encoder \in {"Video", "Subtitle"}
      THEN "audio cannot have an video or subtitle encoder"
    ELSE IF c.subtitle.encoder \in {"Audio", "Video"}
      THEN "subtitle cannot have an audio or video encoder"
    ELSE IF ~c.video.enabled /\ ~c.audio.enabled /\ ~c.subtitle.enabled
      THEN "no streams are enabled"
    ELSE IF c.audio.crf > -1 \/ c.subtitle.crf > -1
      THEN "audio and subtitles cannot have a crf"
    ELSE IF (c.video.bitrate > -1 \/ c.video.crf > -1) /\ c.video.encoder = "None"
      THEN "bitrate and crf cannot be set without an encoder"
    ELSE Ok

mp4fragment_validate(c) ==
    IF ~c.file_exists THEN "File does not exist" ELSE Ok

mp4dash_validate(c) == Ok

validate(c) ==
    CASE c.kind = "ffmpeg"      -> ffmpeg_validate(c)
      [] c.kind = "mp4fragment" -> mp4fragment_validate(c)
      [] c.kind = "mp4dash"     -> mp4dash_validate(c)

\* isize::to_string(): the decimal digits, with a minus sign
Digit(d) == SubSeq("0123456789", d + 1, d + 1)

RECURSIVE Decimal(_)
Decimal(n) == IF n < 10 THEN Digit(n) ELSE Decimal(n \div 10) \o Digit(n % 10)

to_string(n) == IF n < 0 THEN "-" \o Decimal(-n) ELSE Decimal(n)

\* the encoder constants of ffmpeg.rs: X264, AAC, WEB_VTT
EncoderName(kind) ==
    CASE kind = "Video"    -> "libx264"
      [] kind = "Audio"    -> "aac"
      [] kind = "Subtitle" -> "webvtt"

\* match self.<group>.encoder { <Kind>(x) => x, Encoder::None => "copy",
\*                              _ => unreachable!() }
CodecName(opts, kind) ==
    IF opts.encoder = kind THEN EncoderName(kind)
    ELSE IF opts.encoder = "None" THEN "copy"
    ELSE "unreachable"

Flag(cond, flag, value) == IF cond THEN <<flag, value>> ELSE <<>>

video_args(c) ==
    IF c.video.enabled
      THEN <<"-c:v", CodecName(c.video, "Video")>>
             \o Flag(c.video.bitrate > -1, "-b:v", to_string(c.video.bitrate))
             \o Flag(c.video.colour_8_bit, "-vf", "format=yuv420p")
             \o Flag(c.video.crf > -1, "-crf", to_string(c.video.crf))
      ELSE <<"-vn">>

audio_args(c) ==
    IF c.audio.enabled
      THEN <<"-c:a", CodecName(c.audio, "Audio")>>
             \o Flag(c.audio.bitrate > -1, "-b:a", to_string(c.audio.bitrate))
             \o Flag(c.audio.channels > -1, "-ac", to_string(c.audio.channels))
      ELSE <<"-an">>

\* the subtitle group as it would be if the drop flag were forgotten
subtitle_args_without_drop(c) ==
    IF c.subtitle.enabled
      THEN <<"-c:s", CodecName(c.subtitle, "Subtitle")>>
      ELSE <<>>

subtitle_args(c) ==
    IF c.subtitle.enabled
      THEN <<"-c:s", CodecName(c.subtitle, "Subtitle")>>
      ELSE <<"-sn">>

RECURSIVE map_args(_)
map_args(tracks) ==
    IF tracks = <<>> THEN <<>>
    ELSE <<"-map", "0:" \o to_string(Head(tracks))>> \o map_args(Tail(tracks))

\* the stem of the source file, in the temporary directory
TempStem == "/tmp/in"

\* out_file, or the default name made of the stem, the kind of the first
\* enabled group and the first track index
ffmpeg_out(c) ==
    IF c.out_file # NoPath THEN c.out_file
    ELSE LET idx == IF c.tracks = <<>> THEN 0 ELSE Head(c.tracks)
         IN  IF c.video.enabled THEN TempStem \o "-split-vid-" \o to_string(idx) \o ".mp4"
             ELSE IF c.audio.enabled THEN TempStem \o "-split-aud-" \o to_string(idx) \o ".mp4"
             ELSE TempStem \o "-split-sub-" \o to_string(idx) \o ".vtt"

ffmpeg_args(c) ==
    <<"-i", c.file, "-y", "-progress", "-">>
      \o video_args(c) \o audio_args(c) \o subtitle_args(c)
      \o map_args(c.tracks) \o <<ffmpeg_out(c)>>

\* a group that is enabled holds an encoder of another kind: unreachable!()
HitsUnreachable(c) ==
    \/ c.video.enabled /\ CodecName(c.video, "Video") = "unreachable"
    \/ c.audio.enabled /\ CodecName(c.audio, "Audio") = "unreachable"
    \/ c.subtitle.enabled /\ CodecName(c.subtitle, "Subtitle") = "unreachable"

\* build() as it would be without its call of validate()
ffmpeg_build_without_validate(c) ==
    IF HitsUnreachable(c)
      THEN [err |-> "panic", cmd |-> "none", args |-> <<>>]
      ELSE [err |-> Ok, cmd |-> "ffmpeg", args |-> ffmpeg_args(c)]

\* build() returns the error, or the Command: the program it runs and its
\* arguments; err is "panic" when build() does not return
ffmpeg_build(c) ==
    IF ffmpeg_validate(c) # Ok
      THEN [err |-> ffmpeg_validate(c), cmd |-> "none", args |-> <<>>]
    ELSE IF HitsUnreachable(c)
      THEN [err |-> "panic", cmd |-> "none", args |-> <<>>]
    ELSE [err |-> Ok, cmd |-> "ffmpeg", args |-> ffmpeg_args(c)]

mp4fragment_out(c) == IF c.out_file # NoPath THEN c.out_file ELSE TempStem \o "-f.mp4"

mp4fragment_build(c) ==
    [err |-> Ok, cmd |-> "mp4fragment", args |-> <<c.file, mp4fragment_out(c)>>]

\* the output directory is named after the source file up to its first '-'
mp4dash_build(c) ==
    [err |-> Ok, cmd |-> "mp4dash",
     args |-> <<"-o", "processed/in", "--mpd-name=manifest.mpd",
                "--use-segment-timeline", c.file>>]

build(c) ==
    CASE c.kind = "ffmpeg"      -> ffmpeg_build(c)
      [] c.kind = "mp4fragment" -> mp4fragment_build(c)
      [] c.kind = "mp4dash"     -> mp4dash_build(c)

(***************************************************************************)
(* get_info(): percent_complete from the snapshot and the media duration.  *)
(***************************************************************************)
as_secs(t) == t \div TicksPerSec

NaN == [k |-> "nan", n |-> 0, d |-> 1]
Inf == [k |-> "inf", n |-> 0, d |-> 1]
Frac(n, d) == [k |-> "num", n |-> n, d |-> d]

\* session_info.time.as_secs() as f64 / media_info.duration.as_secs() as f64 * 100.0
\* then ((stage - 1) / max_stages) * 100 + task_percent / max_stages
overall_percent(s, m) ==
    LET t == as_secs(s.time)
        d == as_secs(m)
    IN  IF d = 0
          THEN (IF t = 0 THEN NaN ELSE Inf)
          ELSE Frac((s.stage - 1) * 100 * d + t * 100, s.max_stages * d)

get_info(s, m) ==
    [percent_complete |-> overall_percent(s, m),
     stage |-> s.stage,
     max_stages |-> s.max_stages]

\* comparisons of percent values as f64 compares them (false on NaN)
PctEq(p, x) == p.k = "num" /\ p.n = x * p.d
PctLt(p, q) ==
    \/ p.k = "num" /\ q.k = "num" /\ p.n * q.d < q.n * p.d
    \/ p.k = "num" /\ q.k = "inf"
PctInRange(p, lo, hi) == p.k = "num" /\ lo * p.d <= p.n /\ p.n <= hi * p.d

\* get_info() takes the two read locks and changes nothing: what a call
\* returns in a state of the running job is Info
Info == get_info(info, duration)

NoInfo == [percent_complete |-> NaN, stage |-> -1, max_stages |-> -1]

(***************************************************************************)
(* Session::new, chain and start.                                          *)
(***************************************************************************)
NewInfo == [stage |-> 0, max_stages |-> 1, time |-> 0]

\* cfg and sp while no configuration is inspected and no spawn() is followed
NoCfg == [done |-> FALSE]
NoSpawn == [pc |-> "none"]

Init ==
    /\ commands \in {<<c>> : c \in SampleStages}
    /\ info = NewInfo
    /\ duration \in {1, MaxTick}
    /\ ret = "none"
    /\ bg = <<>>
    /\ procs = <<>>
    /\ out = NoInfo
    /\ cfg = NoCfg
    /\ sp = NoSpawn

RECURSIVE Remaining(_)
Remaining(b) == IF b = 0 THEN 0 ELSE Len(bg[b].cmds) + Remaining(b - 1)

\* stages handed to the Session that are pending, waiting in a background
\* task, or already spawned
StagesInPlay == Len(commands) + Remaining(Len(bg)) + Len(procs)

chain(c) ==
    /\ StagesInPlay < MaxStages
    /\ commands' = Append(commands, c)
    /\ UNCHANGED <<info, duration, ret, bg, procs, out, cfg, sp>>

built == [i \in 1 .. Len(commands) |-> build(Config(commands[i]))]

BuildFails == \E i \in 1 .. Len(commands) : built[i].err # Ok

FirstError ==
    built[CHOOSE i \in 1 .. Len(commands) :
            /\ built[i].err # Ok
            /\ \A j \in 1 .. (i - 1) : built[j].err = Ok].err

StartEmpty ==
    /\ commands = <<>>
    /\ ret' = "AlreadyStarted"
    /\ UNCHANGED <<commands, info, duration, bg, procs, out, cfg, sp>>

StartBuildErr ==
    /\ commands # <<>>
    /\ BuildFails
    /\ info' = [info EXCEPT !.max_stages = Len(commands)]
    /\ commands' = <<>>
    /\ ret' = FirstError
    /\ UNCHANGED <<duration, bg, procs, out, cfg, sp>>

StartOk ==
    /\ commands # <<>>
    /\ ~BuildFails
    /\ info' = [info EXCEPT !.max_stages = Len(commands)]
    /\ commands' = <<>>
    /\ bg' = Append(bg, [cmds |-> [i \in 1 .. Len(commands) |->
                                      [program |-> built[i].cmd, spec |-> commands[i]]],
                         all |-> commands,
                         pc |-> "loop", max_time |-> duration, cur |-> 0])
    /\ ret' = Ok
    /\ UNCHANGED <<duration, procs, out, cfg, sp>>

start ==
    /\ Len(bg) < MaxStarts
    /\ (StartEmpty \/ StartBuildErr \/ StartOk)

(***************************************************************************)
(* The background task of start(): for cmd in cmds { stage += 1;           *)
(* spawn(cmd).await }, then time = max_time.                               *)
(***************************************************************************)
ExitCodes == {0, 1}

NewProc(b, c) ==
    [bg |-> b, cmd |-> c, stage |-> info.stage, alive |-> TRUE, code |-> 0,
     rpc |-> "reset", local_time |-> 0, ctr |-> 0, nread |-> 0]

\* status.write().unwrap().stage += 1
Bump(b) ==
    /\ bg[b].pc = "loop"
    /\ bg[b].cmds # <<>>
    /\ info' = [info EXCEPT !.stage = @ + 1]
    /\ bg' = [bg EXCEPT ![b].pc = "spawn"]
    /\ UNCHANGED <<commands, duration, ret, procs, out, cfg, sp>>

\* cmd.spawn().unwrap() succeeds; the reader tasks and the waiter are scheduled
Spawn(b) ==
    /\ bg[b].pc = "spawn"
    /\ procs' = Append(procs, NewProc(b, Head(bg[b].cmds)))
    /\ bg' = [bg EXCEPT ![b].pc = "await", ![b].cmds = Tail(@),
                        ![b].cur = Len(procs) + 1]
    /\ UNCHANGED <<commands, info, duration, ret, out, cfg, sp>>

\* cmd.spawn() returns an error (the binary is missing): unwrap() panics and
\* the background task ends
SpawnPanic(b) ==
    /\ bg[b].pc = "spawn"
    /\ bg' = [bg EXCEPT ![b].pc = "panicked"]
    /\ UNCHANGED <<commands, info, duration, ret, procs, out, cfg, sp>>

\* the child exits with some status
ProcExit(p, code) ==
    /\ procs[p].alive
    /\ procs' = [procs EXCEPT ![p].alive = FALSE, ![p].code = code]
    /\ UNCHANGED <<commands, info, duration, ret, bg, out, cfg, sp>>

\* the waiter's p.await completes; the status is printed and dropped
Resume(b) ==
    /\ bg[b].pc = "await"
    /\ ~procs[bg[b].cur].alive
    /\ bg' = [bg EXCEPT ![b].pc = "loop"]
    /\ UNCHANGED <<commands, info, duration, ret, procs, out, cfg, sp>>

\* status.write().unwrap().time = max_time
Force(b) ==
    /\ bg[b].pc = "loop"
    /\ bg[b].cmds = <<>>
    /\ info' = [info EXCEPT !.time = bg[b].max_time]
    /\ bg' = [bg EXCEPT ![b].pc = "done"]
    /\ UNCHANGED <<commands, duration, ret, procs, out, cfg, sp>>

(***************************************************************************)
(* The detached stdout task of spawn(): reset the snapshot's telemetry,    *)
(* then parse line by line into local_buf and flush when ctr > 24.         *)
(***************************************************************************)
FlushAfter == 24

\* a line is the list of its parts between '=' signs; a value is written as
\* the integer it spells, in ticks; a negative one does not parse as u64
Unparsable == -1

TelemetryTimes == {TicksPerSec, MaxTick}

Lines ==
    {<<"out_time_us", v>> : v \in TelemetryTimes \cup {Unparsable}}
      \cup {<<"speed", 1>>, <<"Press [q] to stop">>}

Parses(x) == x >= 0

ReaderReset(p) ==
    /\ procs[p].rpc = "reset"
    /\ info' = [info EXCEPT !.time = 0]
    /\ procs' = [procs EXCEPT ![p].rpc = "read"]
    /\ UNCHANGED <<commands, duration, ret, bg, out, cfg, sp>>

RECURSIVE LinesRead(_)
LinesRead(p) == IF p = 0 THEN 0 ELSE procs[p].nread + LinesRead(p - 1)

ReadLine(p, line) ==
    /\ procs[p].rpc = "read"
    /\ LinesRead(Len(procs)) < MaxLines
    /\ LET r == procs[p]
           t == IF Len(line) = 2 /\ line[1] = "out_time_us" /\ Parses(line[2])
                  THEN line[2] ELSE r.local_time
           c == IF Len(line) = 2 THEN r.ctr ELSE FlushAfter + 1
       IN  /\ info' = IF c > FlushAfter THEN [info EXCEPT !.time = t] ELSE info
           /\ procs' = [procs EXCEPT ![p].local_time = t,
                                     ![p].ctr = (IF c > FlushAfter THEN 0 ELSE c) + 1,
                                     ![p].nread = @ + 1]
    /\ UNCHANGED <<commands, duration, ret, bg, out, cfg, sp>>

\* next_line() returns None: the child closed its stdout
ReadEof(p) ==
    /\ procs[p].rpc = "read"
    /\ procs' = [procs EXCEPT ![p].rpc = "eof", ![p].local_time = 0, ![p].ctr = 0]
    /\ UNCHANGED <<commands, info, duration, ret, bg, out, cfg, sp>>

Next ==
    \/ \E c \in SampleStages : chain(c)
    \/ start
    \/ \E b \in 1 .. Len(bg) : Bump(b)
    \/ \E b \in 1 .. Len(bg) : Spawn(b)
    \/ \E b \in 1 .. Len(bg) : SpawnPanic(b)
    \/ \E p \in 1 .. Len(procs) : \E code \in ExitCodes : ProcExit(p, code)
    \/ \E b \in 1 .. Len(bg) : Resume(b)
    \/ \E b \in 1 .. Len(bg) : Force(b)
    \/ \E p \in 1 .. Len(procs) : ReaderReset(p)
    \/ \E p \in 1 .. Len(procs) : \E line \in Lines : ReadLine(p, line)
    \/ \E p \in 1 .. Len(procs) : ReadEof(p)

Spec == Init /\ [][Next]_vars



(***************************************************************************)
(* get_info() as a function of its inputs: every snapshot and duration     *)
(* within the bounds, and one call.                                        *)
(***************************************************************************)
MaxStageNo == 6     \* largest stage counter and stage count handed to get_info
MaxInfoTick == 6    \* largest elapsed time and duration handed to get_info

InitInfo ==
    /\ commands = <<>>
    /\ info \in [stage : 0 .. MaxStageNo, max_stages : 1 .. MaxStageNo,
                 time : 0 .. MaxInfoTick]
    /\ duration \in 0 .. MaxInfoTick
    /\ ret = "none"
    /\ bg = <<>>
    /\ procs = <<>>
    /\ out = NoInfo
    /\ cfg = NoCfg
    /\ sp = NoSpawn

GetInfoCall ==
    /\ out = NoInfo
    /\ out' = get_info(info, duration)
    /\ UNCHANGED <<commands, info, duration, ret, bg, procs, cfg, sp>>

NextInfo == GetInfoCall

SpecInfo == InitInfo /\ [][NextInfo]_vars

(***************************************************************************)
(* validate() and build() as functions of a stage configuration.           *)
(* StructConfigs are the values of ffmpeg::Config that validate()          *)
(* distinguishes; BuilderConfigs are those that Config::new and its        *)
(* setters produce, with every optional flag, track list and output file.  *)
(***************************************************************************)
Bitrates == {-1, 128}
Crfs == {-1, 5}
ChannelCounts == {-1, 2}
TrackLists == {<<>>, <<2, 1>>}
OutFiles == {NoPath, "out.mp4"}

StructOpts ==
    {CodecOpts(e, b, en, q) : e \in Encoders, b \in Bitrates, en \in BOOLEAN, q \in Crfs}

StructConfigs ==
    {FfmpegConfig(v, a, s, FALSE) : v \in StructOpts, a \in StructOpts, s \in StructOpts}

VideoOpts ==
    {[encoder |-> e, bitrate |-> b, enabled |-> en, crf |-> q,
      channels |-> -1, colour_8_bit |-> col] :
        e \in {"None", "Video"}, b \in Bitrates, en \in BOOLEAN, q \in Crfs,
        col \in BOOLEAN}

AudioOpts ==
    {[encoder |-> e, bitrate |-> b, enabled |-> en, crf |-> -1,
      channels |-> ch, colour_8_bit |-> FALSE] :
        e \in {"None", "Audio"}, b \in Bitrates, en \in BOOLEAN, ch \in ChannelCounts}

SubtitleOpts ==
    {CodecOpts(e, -1, en, -1) : e \in {"None", "Subtitle"}, en \in BOOLEAN}

BuilderConfigs ==
    {[FfmpegConfig(v, a, s, FALSE) EXCEPT !.tracks = t, !.out_file = o] :
        v \in VideoOpts, a \in AudioOpts, s \in SubtitleOpts,
        t \in TrackLists, o \in OutFiles}

OtherConfigs == {FragmentConfig(TRUE, FALSE), FragmentConfig(FALSE, FALSE), DashConfig}

NoBuild == [err |-> "none", cmd |-> "none", args |-> <<>>]

InitCfg ==
    /\ commands = <<>>
    /\ info = NewInfo
    /\ duration = 0
    /\ ret = "none"
    /\ bg = <<>>
    /\ procs = <<>>
    /\ out = NoInfo
    /\ sp = NoSpawn
    /\ cfg \in {[c |-> c, done |-> FALSE, validated |-> "none", built |-> NoBuild] :
                  c \in StructConfigs \cup BuilderConfigs \cup OtherConfigs}

\* validate() and build() are called on the configuration
ValidateAndBuild ==
    /\ ~cfg.done
    /\ cfg' = [cfg EXCEPT !.done = TRUE,
                          !.validated = validate(cfg.c),
                          !.built = build(cfg.c)]
    /\ UNCHANGED <<commands, info, duration, ret, bg, procs, out, sp>>

NextCfg == ValidateAndBuild

SpecCfg == InitCfg /\ [][NextCfg]_vars

(***************************************************************************)
(* One stage followed statement by statement: the background task of       *)
(* start(), spawn(), the child, the stdout task and the stderr task, with  *)
(* the write lock of session_info and the text of every line.  The         *)
(* snapshot in info carries every field of SessionInfoInt.  media_info is  *)
(* only ever read-locked (get_info, start), so it has no writer to wait    *)
(* for.                                                                    *)
(***************************************************************************)
MaxOut == 2
MaxErr == 2
MaxParse == 3
MaxFlushLines == 52
MaxDiag == 1

\* the first position of character ch in s, 0 if there is none
FirstAt(s, ch) ==
    IF \E i \in 1 .. Len(s) : SubSeq(s, i, i) = ch
      THEN CHOOSE i \in 1 .. Len(s) :
             /\ SubSeq(s, i, i) = ch
             /\ \A j \in 1 .. (i - 1) : SubSeq(s, j, j) # ch
      ELSE 0

\* line.split('=').collect::<Vec<_>>()
RECURSIVE split(_)
split(s) ==
    LET i == FirstAt(s, "=")
    IN  IF i = 0 THEN <<s>>
        ELSE <<SubSeq(s, 1, i - 1)>> \o split(SubSeq(s, i + 1, Len(s)))

\* str::trim, for lines whose only whitespace is the space
RECURSIVE trim(_)
trim(s) ==
    IF s # "" /\ SubSeq(s, 1, 1) = " " THEN trim(SubSeq(s, 2, Len(s)))
    ELSE IF s # "" /\ SubSeq(s, Len(s), Len(s)) = " "
      THEN trim(SubSeq(s, 1, Len(s) - 1))
    ELSE s

IsDigits(s) ==
    /\ s # ""
    /\ \A i \in 1 .. Len(s) : \E d \in 0 .. 9 : SubSeq(s, i, i) = Digit(d)

DigitValue(ch) == CHOOSE d \in 0 .. 9 : Digit(d) = ch

RECURSIVE Value(_)
Value(s) ==
    IF s = "" THEN 0
    ELSE Value(SubSeq(s, 1, Len(s) - 1)) * 10 + DigitValue(SubSeq(s, Len(s), Len(s)))

\* from_str accepts one leading '+'
Unsigned(s) == IF Len(s) > 1 /\ SubSeq(s, 1, 1) = "+" THEN SubSeq(s, 2, Len(s)) ELSE s

\* str::parse::<usize>() and ::<u64>(): the number, or Unparsable for Err
parse_int(s) == IF IsDigits(Unsigned(s)) THEN Value(Unsigned(s)) ELSE Unparsable

\* str::parse::<f64>() in tenths, for texts of digits with at most one
\* fractional digit; any other text of the model's lines is an Err
parse_f64(s) ==
    LET u == Unsigned(s)
        i == FirstAt(u, ".")
        w == SubSeq(u, 1, i - 1)
        f == SubSeq(u, i + 1, Len(u))
    IN  IF i = 0 THEN (IF IsDigits(u) THEN Value(u) * 10 ELSE Unparsable)
        ELSE IF IsDigits(w) /\ Len(f) <= 1 /\ (f = "" \/ IsDigits(f))
          THEN Value(w) * 10 + Value(f)
        ELSE Unparsable

\* Duration::from_micros and Duration::as_micros, durations being in ticks
MicrosPerTick == 1000000 \div TicksPerSec
from_micros(us) == us \div MicrosPerTick
as_micros(t) == t * MicrosPerTick

\* Result::unwrap_or
unwrap_or(v, old) == IF v = Unparsable THEN old ELSE v

\* x[..x.len() - 7]
SuffixLen == 7

ZeroBuf == [frame |-> 0, fps |-> 0, bitrate |-> 0, total_size |-> 0, time |-> 0]

\* the match on the parts of a line: the new local_buf and the arm taken
\* ("telemetry", "pair" for [_, _], "other" for _, "panic" when the bitrate
\* slice is out of range)
match_line(buf, line) ==
    LET parts == split(line)
        key == parts[1]
        x == parts[2]
    IN  IF Len(parts) # 2 THEN [buf |-> buf, arm |-> "other"]
        ELSE IF key = "frame"
          THEN [buf |-> [buf EXCEPT !.frame = unwrap_or(parse_int(x), @)],
                arm |-> "telemetry"]
        ELSE IF key = "fps"
          THEN [buf |-> [buf EXCEPT !.fps = unwrap_or(parse_f64(x), @)],
                arm |-> "telemetry"]
        ELSE IF key = "bitrate"
          THEN IF Len(x) < SuffixLen
                 THEN [buf |-> buf, arm |-> "panic"]
                 ELSE [buf |-> [buf EXCEPT !.bitrate =
                                  unwrap_or(parse_f64(trim(SubSeq(x, 1, Len(x) - SuffixLen))), @)],
                       arm |-> "telemetry"]
        ELSE IF key = "total_size"
          THEN [buf |-> [buf EXCEPT !.total_size = unwrap_or(parse_int(trim(x)), @)],
                arm |-> "telemetry"]
        ELSE IF key = "out_time_us"
          THEN [buf |-> [buf EXCEPT !.time =
                           from_micros(unwrap_or(parse_int(x), as_micros(@)))],
                arm |-> "telemetry"]
        ELSE [buf |-> buf, arm |-> "pair"]

\* ctr = 25 in the last arm
DiagCtr == 25

\* the arms as they would be if an unknown line did not force a flush
ctr_after_match_without_force(arm, ctr) == ctr

ctr_after_match(arm, ctr) == IF arm = "other" THEN DiagCtr ELSE ctr

StdoutLines ==
    {"frame=10", "frame=1o", "fps=25.0", "fps=", "bitrate=128.0kbits/s",
     "bitrate=garbage", "bitrate=N/A", "total_size=2048", "total_size=2k",
     "out_time_us=1000000", "out_time_us=", "speed=1x", "Press [q] to stop"}

FlushLines == {"frame=10", "speed=1x", "Press [q] to stop"}

SpawnLines == {"out_time_us=1000000", "speed=1x", "Press [q] to stop"}

StderrLines == {"warn: a", "warn: b"}

Tasks == {"task", "stdout", "stderr"}

\* where a task calls write() on session_info, and where it is once it holds
\* the guard
Holding(pc) ==
    CASE pc = "w_bump"  -> "bump"
      [] pc = "w_force" -> "force"
      [] pc = "w_reset" -> "reset"
      [] pc = "w_flush" -> "flush"
      [] pc = "w_push"  -> "push"

WantsLock == {"w_bump", "w_force", "w_reset", "w_flush", "w_push"}

FullInfo ==
    [frame |-> 0, fps |-> 0, bitrate |-> 0, total_size |-> 0, time |-> 0,
     stdout |-> <<>>, stderr |-> <<>>, stage |-> 0, max_stages |-> 1]

NewSpawn(limit, lines, diag) ==
    [lock |-> "none",
     pc |-> [task |-> "w_bump", stdout |-> "off", stderr |-> "off"],
     child |-> "none", code |-> 0,
     local_buf |-> ZeroBuf, line_buf |-> <<>>, ctr |-> 0,
     line |-> "", nout |-> 0, nerr |-> 0,
     limit |-> limit, lines |-> lines, diag_limit |-> diag,
     last |-> "", since |-> 0, cause |-> "none", err_read |-> <<>>]

\* a session of one stage after start() returned Ok
InitSpawn ==
    /\ commands = <<>>
    /\ info = FullInfo
    /\ duration = MaxTick
    /\ ret = Ok
    /\ bg = <<>>
    /\ procs = <<>>
    /\ out = NoInfo
    /\ cfg = NoCfg
    /\ sp = NewSpawn(MaxOut, SpawnLines, MaxOut)

\* RwLock::write() returns the guard
write_lock(t) ==
    /\ sp.lock = "none"
    /\ sp.pc[t] \in WantsLock
    /\ sp' = [sp EXCEPT !.lock = t, !.pc[t] = Holding(@)]
    /\ UNCHANGED <<commands, info, duration, ret, bg, procs, out, cfg>>

\* status.write().unwrap().stage += 1; the guard is dropped with the statement
TaskBump ==
    /\ sp.pc["task"] = "bump"
    /\ info' = [info EXCEPT !.stage = @ + 1]
    /\ sp' = [sp EXCEPT !.lock = "none", !.pc["task"] = "spawn"]
    /\ UNCHANGED <<commands, duration, ret, bg, procs, out, cfg>>

\* cmd.spawn().unwrap() succeeds; the two reader tasks and the waiter start
ChildSpawn ==
    /\ sp.pc["task"] = "spawn"
    /\ sp' = [sp EXCEPT !.child = "running",
                        !.pc = [task |-> "await", stdout |-> "w_reset", stderr |-> "read"]]
    /\ UNCHANGED <<commands, info, duration, ret, bg, procs, out, cfg>>

\* cmd.spawn() returns an error: unwrap() panics in the background task
ChildSpawnFails ==
    /\ sp.pc["task"] = "spawn"
    /\ sp' = [sp EXCEPT !.pc["task"] = "panicked"]
    /\ UNCHANGED <<commands, info, duration, ret, bg, procs, out, cfg>>

ChildExit(code) ==
    /\ sp.child = "running"
    /\ sp' = [sp EXCEPT !.child = "exited", !.code = code]
    /\ UNCHANGED <<commands, info, duration, ret, bg, procs, out, cfg>>

\* p.await completes in the waiter; spawn() returns and the loop ends
WaiterDone ==
    /\ sp.pc["task"] = "await"
    /\ sp.child = "exited"
    /\ sp' = [sp EXCEPT !.pc["task"] = "w_force"]
    /\ UNCHANGED <<commands, info, duration, ret, bg, procs, out, cfg>>

\* status.write().unwrap().time = max_time
TaskForce ==
    /\ sp.pc["task"] = "force"
    /\ info' = [info EXCEPT !.time = duration]
    /\ sp' = [sp EXCEPT !.lock = "none", !.pc["task"] = "done"]
    /\ UNCHANGED <<commands, duration, ret, bg, procs, out, cfg>>

\* the reset as it would be if it replaced the whole snapshot but the stage
\* counters
StdoutReset_clears_logs ==
    /\ sp.pc["stdout"] = "reset"
    /\ info' = [info EXCEPT !.frame = 0, !.fps = 0, !.bitrate = 0,
                            !.total_size = 0, !.time = 0,
                            !.stdout = <<>>, !.stderr = <<>>]
    /\ sp' = [sp EXCEPT !.lock = "none", !.pc["stdout"] = "read"]
    /\ UNCHANGED <<commands, duration, ret, bg, procs, out, cfg>>

\* the block that zeroes the telemetry; the guard is dropped at its brace
StdoutReset ==
    /\ sp.pc["stdout"] = "reset"
    /\ info' = [info EXCEPT !.frame = 0, !.fps = 0, !.bitrate = 0,
                            !.total_size = 0, !.time = 0]
    /\ sp' = [sp EXCEPT !.lock = "none", !.pc["stdout"] = "read"]
    /\ UNCHANGED <<commands, duration, ret, bg, procs, out, cfg>>

\* the stream holds at most diag_limit lines that are not pairs
DiagAllowed(line) ==
    \/ Len(split(line)) = 2
    \/ Len(info.stdout) + Len(sp.line_buf) < sp.diag_limit

\* next_line() returns a line: the match, then either ctr += 1 or the flush
StdoutLine(line) ==
    /\ sp.pc["stdout"] = "read"
    /\ sp.nout < sp.limit
    /\ DiagAllowed(line)
    /\ LET m == match_line(sp.local_buf, line)
           c == ctr_after_match(m.arm, sp.ctr)
       IN  sp' = [sp EXCEPT
                    !.local_buf = m.buf,
                    !.line_buf = IF m.arm = "other" THEN Append(@, line) ELSE @,
                    !.ctr = IF m.arm = "panic" \/ c > FlushAfter THEN c ELSE c + 1,
                    !.pc["stdout"] = IF m.arm = "panic" THEN "panicked"
                                     ELSE IF c > FlushAfter THEN "w_flush" ELSE "read",
                    !.nout = @ + 1,
                    !.last = line,
                    !.since = IF m.arm = "telemetry" THEN @ + 1 ELSE @,
                    !.cause = IF m.arm # "panic" /\ c > FlushAfter
                                THEN (IF m.arm = "other" THEN "line" ELSE "counter")
                                ELSE @]
    /\ UNCHANGED <<commands, info, duration, ret, bg, procs, out, cfg>>

\* the flush as it would be if the guard outlived the block
StdoutFlush_keeps_guard ==
    /\ sp.pc["stdout"] = "flush"
    /\ info' = [info EXCEPT !.frame = sp.local_buf.frame,
                            !.fps = sp.local_buf.fps,
                            !.bitrate = sp.local_buf.bitrate,
                            !.total_size = sp.local_buf.total_size,
                            !.time = sp.local_buf.time,
                            !.stdout = @ \o sp.line_buf]
    /\ sp' = [sp EXCEPT !.line_buf = <<>>, !.ctr = 0 + 1, !.since = 0,
                        !.pc["stdout"] = "read"]
    /\ UNCHANGED <<commands, duration, ret, bg, procs, out, cfg>>

\* the block under 'if ctr > 24', then ctr += 1; the guard is dropped at the
\* block's brace
StdoutFlush ==
    /\ sp.pc["stdout"] = "flush"
    /\ info' = [info EXCEPT !.frame = sp.local_buf.frame,
                            !.fps = sp.local_buf.fps,
                            !.bitrate = sp.local_buf.bitrate,
                            !.total_size = sp.local_buf.total_size,
                            !.time = sp.local_buf.time,
                            !.stdout = @ \o sp.line_buf]
    /\ sp' = [sp EXCEPT !.lock = "none", !.line_buf = <<>>, !.ctr = 0 + 1,
                        !.since = 0, !.pc["stdout"] = "read"]
    /\ UNCHANGED <<commands, duration, ret, bg, procs, out, cfg>>

\* next_line() returns None
StdoutEof ==
    /\ sp.pc["stdout"] = "read"
    /\ sp' = [sp EXCEPT !.pc["stdout"] = "eof"]
    /\ UNCHANGED <<commands, info, duration, ret, bg, procs, out, cfg>>

\* reader_err.next_line() returns a line, which is printed
StderrLine(line) ==
    /\ sp.pc["stderr"] = "read"
    /\ sp.nerr < MaxErr
    /\ sp' = [sp EXCEPT !.line = line, !.nerr = @ + 1, !.pc["stderr"] = "w_push",
                        !.err_read = Append(@, line)]
    /\ UNCHANGED <<commands, info, duration, ret, bg, procs, out, cfg>>

\* the push as it would be if the line were inserted at the front
StderrPush_front ==
    /\ sp.pc["stderr"] = "push"
    /\ info' = [info EXCEPT !.stderr = <<sp.line>> \o @]
    /\ sp' = [sp EXCEPT !.lock = "none", !.line = "", !.pc["stderr"] = "read"]
    /\ UNCHANGED <<commands, duration, ret, bg, procs, out, cfg>>

\* s.stderr.push(line); the guard is dropped at the end of the loop body
StderrPush ==
    /\ sp.pc["stderr"] = "push"
    /\ info' = [info EXCEPT !.stderr = Append(@, sp.line)]
    /\ sp' = [sp EXCEPT !.lock = "none", !.line = "", !.pc["stderr"] = "read"]
    /\ UNCHANGED <<commands, duration, ret, bg, procs, out, cfg>>

StderrEof ==
    /\ sp.pc["stderr"] = "read"
    /\ sp' = [sp EXCEPT !.pc["stderr"] = "eof"]
    /\ UNCHANGED <<commands, info, duration, ret, bg, procs, out, cfg>>

\* get_info() takes both read locks, which it can while no task holds the
\* write guard
GetInfoNow ==
    /\ sp.lock = "none"
    /\ out = NoInfo
    /\ out' = get_info(info, duration)
    /\ UNCHANGED <<commands, info, duration, ret, bg, procs, cfg, sp>>

NextSpawn ==
    \/ \E t \in Tasks : write_lock(t)
    \/ TaskBump
    \/ ChildSpawn
    \/ ChildSpawnFails
    \/ \E code \in ExitCodes : ChildExit(code)
    \/ WaiterDone
    \/ TaskForce
    \/ StdoutReset
    \/ \E line \in sp.lines : StdoutLine(line)
    \/ StdoutFlush
    \/ StdoutEof
    \/ \E line \in StderrLines : StderrLine(line)
    \/ StderrPush
    \/ StderrEof
    \/ GetInfoNow

SpecSpawn == InitSpawn /\ [][NextSpawn]_vars

\* the scheduling of the runtime and of the system: a task that is not
\* awaiting anything goes on (it spawns or fails to spawn, it leaves the scope
\* of a guard it holds), a task blocked in write() gets the lock when it is
\* free again and again, the child exits, and the waiter is woken
FairSpawn ==
    /\ SF_vars(write_lock("task"))
    /\ WF_vars(TaskBump)
    /\ WF_vars(ChildSpawn \/ ChildSpawnFails)
    /\ WF_vars(\E code \in ExitCodes : ChildExit(code))
    /\ WF_vars(WaiterDone)
    /\ WF_vars(TaskForce)
    /\ WF_vars(StdoutReset)
    /\ WF_vars(StdoutFlush)
    /\ WF_vars(StderrPush)

SpecSpawnLive == SpecSpawn /\ FairSpawn

\* the stdout task of a running stage alone, on a short stream of every kind
\* of line
InitParse ==
    /\ commands = <<>>
    /\ info = [FullInfo EXCEPT !.stage = 1]
    /\ duration = MaxTick
    /\ ret = Ok
    /\ bg = <<>>
    /\ procs = <<>>
    /\ out = NoInfo
    /\ cfg = NoCfg
    /\ sp = [NewSpawn(MaxParse, StdoutLines, MaxParse) EXCEPT
               !.child = "running",
               !.pc = [task |-> "await", stdout |-> "w_reset", stderr |-> "eof"]]

\* the stdout task of a running stage alone, on a long stream of few kinds of
\* line
InitFlush ==
    /\ commands = <<>>
    /\ info = [FullInfo EXCEPT !.stage = 1]
    /\ duration = MaxTick
    /\ ret = Ok
    /\ bg = <<>>
    /\ procs = <<>>
    /\ out = NoInfo
    /\ cfg = NoCfg
    /\ sp = [NewSpawn(MaxFlushLines, FlushLines, MaxDiag) EXCEPT
               !.child = "running",
               !.pc = [task |-> "await", stdout |-> "w_reset", stderr |-> "eof"]]

NextFlush ==
    \/ write_lock("stdout")
    \/ StdoutReset
    \/ \E line \in sp.lines : StdoutLine(line)
    \/ StdoutFlush
    \/ StdoutEof

SpecFlush == InitFlush /\ [][NextFlush]_vars

SpecParse == InitParse /\ [][NextFlush]_vars

(***************************************************************************)
(* The caller's side of a Session alone: chain() and start() in any order, *)
(* the background tasks that start() schedules being left where they       *)
(* begin.                                                                  *)
(***************************************************************************)
\* chain() with the pending list alone bounded
ChainCall(c) ==
    /\ Len(commands) < MaxStages
    /\ commands' = Append(commands, c)
    /\ UNCHANGED <<info, duration, ret, bg, procs, out, cfg, sp>>

NextApi ==
    \/ \E c \in SampleStages : ChainCall(c)
    \/ start

SpecApi == Init /\ [][NextApi]_vars

(***************************************************************************)
(* Properties.                                                             *)
(***************************************************************************)
Alive == {p \in 1 .. Len(procs) : procs[p].alive}

Percent == Info.percent_complete

\* a background task has performed the forced completion write
Forced == \E b \in 1 .. Len(bg) : bg[b].pc = "done"

\* the media is at least one second long, so that percent_complete is a number
WholeSeconds == as_secs(duration) > 0

\* C1: starting is a one-time transition: a start() call made after a
\* successful start() returns AlreadyStarted and schedules no background
\* task, also when chain() was called in between.
C1_StartOnce ==
    [][(Len(bg) >= 1 /\ start) => (ret' = "AlreadyStarted" /\ bg' = bg)]_vars

\* C2: stages are strictly sequential: at most one child process of the
\* Session is alive in any state.
C2_OneChildAlive == Cardinality(Alive) <= 1

\* a stage that does not tolerate failure has exited with a non-zero code
FatalExit ==
    \E p \in 1 .. Len(procs) :
        /\ ~procs[p].alive
        /\ procs[p].code # 0
        /\ ~Config(procs[p].cmd.spec).can_fail

\* C3: once a stage whose can_fail flag is false has exited non-zero, no
\* further process is spawned and the stage counter is not incremented.
C3_AbortOnFailure ==
    [][FatalExit => (Len(procs') = Len(procs) /\ info'.stage = info.stage)]_vars

\* C4: after the forced completion write every get_info() returns
\* percent_complete = 100 (stated for media of one second or more and a
\* Session started once).
C4_CompleteReads100 ==
    (Forced /\ WholeSeconds /\ Len(bg) <= 1) => PctEq(Percent, 100)

\* C5: percent_complete never decreases from one state to the next (stated
\* for the steps of the running job, which leave max_stages alone).
C5_Monotonic ==
    [][(bg # <<>> /\ info'.max_stages = info.max_stages)
         => ~PctLt(get_info(info', duration').percent_complete, Percent)]_vars

\* C6: until the forced completion write, percent_complete is strictly below
\* 100 (stated for media of one second or more and a Session started once).
C6_Below100UntilForced ==
    (~Forced /\ WholeSeconds /\ Len(bg) <= 1) => PctLt(Percent, Frac(100, 1))

\* C7: in every state get_info() returns 0 <= percent_complete <= 100 and
\* 1 <= stage <= max_stages.
C7_InfoInRange ==
    /\ PctInRange(Percent, 0, 100)
    /\ 1 <= Info.stage
    /\ Info.stage <= Info.max_stages

\* percent rounded to two decimals, in hundredths
Round2(p) == (2 * 100 * p.n + p.d) \div (2 * p.d)

\* the formula of the specification, on the untruncated durations
spec_percent(s, m) == Frac((s.stage - 1) * 100 * m + s.time * 100, s.max_stages * m)

\* C8: get_info() returns ((stage - 1) / max_stages) * 100 +
\* (time / duration / max_stages) * 100; with max_stages 6, stage 4 and time
\* exactly half of the duration that is 58.33 (stated for media of one second
\* or more).
C8_PercentFormula ==
    (out # NoInfo /\ WholeSeconds) =>
        /\ out.percent_complete.k = "num"
        /\ out.percent_complete.n * spec_percent(info, duration).d
             = spec_percent(info, duration).n * out.percent_complete.d
        /\ (info.max_stages = 6 /\ info.stage = 4 /\ 2 * info.time = duration)
             => Round2(out.percent_complete) = 5833

\* C9: when validate() fails for a stage of the list, start() returns an
\* error and schedules nothing, so no child process is spawned.
C9_InvalidNeverSpawns ==
    [][((\E i \in 1 .. Len(commands) : validate(Config(commands[i])) # Ok) /\ start)
         => (ret' # Ok /\ bg' = bg)]_vars

\* C10: a start() that fails because a stage did not build leaves the
\* snapshot and the pending stage list as they were.
C10_FailedStartNoEffect ==
    [][StartBuildErr => (info' = info /\ commands' = commands)]_vars

Inspected(kind) == cfg.done /\ cfg.c.kind = kind

\* C11: whenever validate() returns an error on a configuration, build()
\* returns that error and no process invocation.
C11_BuildPropagatesValidate ==
    (cfg.done /\ cfg.validated # Ok) =>
        (cfg.built.err = cfg.validated /\ cfg.built.cmd = "none")

RateWithoutEncoder(g) == g.encoder = "None" /\ (g.bitrate > -1 \/ g.crf > -1)

\* C12: an encoding configuration with a bitrate or a CRF on a group that has
\* no encoder is rejected by validate(), and build() produces no invocation
\* (stated without the wording of the error, for the configurations that
\* Config::new and its setters produce).
C12_RateNeedsEncoder ==
    (Inspected("ffmpeg") /\ cfg.c \in BuilderConfigs
       /\ (\/ RateWithoutEncoder(cfg.c.video)
           \/ RateWithoutEncoder(cfg.c.audio)
           \/ RateWithoutEncoder(cfg.c.subtitle)))
      => (cfg.validated # Ok /\ cfg.built.cmd = "none")

CrfError == "audio and subtitles cannot have a crf"

MismatchErrors ==
    {"video cannot have an audio or subtitle encoder",
     "audio cannot have an video or subtitle encoder",
     "subtitle cannot have an audio or video encoder"}

KindsMatch(c) ==
    /\ c.video.encoder \in {"None", "Video"}
    /\ c.audio.encoder \in {"None", "Audio"}
    /\ c.subtitle.encoder \in {"None", "Subtitle"}

SomeEnabled(c) == c.video.enabled \/ c.audio.enabled \/ c.subtitle.enabled

\* C13 as claimed: validate() on a configuration whose audio group carries a
\* CRF fails with the CRF error whatever the other fields are.
C13_AudioCrfAlwaysCrfError ==
    (Inspected("ffmpeg") /\ cfg.c.audio.crf > -1) => cfg.validated = CrfError

\* C13 as amended: validate() on a configuration whose audio group carries a
\* CRF always fails; the error is the CRF error when every encoder is of its
\* group's kind and a group is enabled, the encoder-kind error when an encoder
\* is of another kind, and "no streams are enabled" when the kinds match and
\* every group is disabled.
C13_AudioCrfRejected ==
    (Inspected("ffmpeg") /\ cfg.c.audio.crf > -1) =>
        /\ cfg.validated # Ok
        /\ cfg.built.cmd = "none"
        /\ (KindsMatch(cfg.c) /\ SomeEnabled(cfg.c)) => cfg.validated = CrfError
        /\ ~KindsMatch(cfg.c) => cfg.validated \in MismatchErrors
        /\ (KindsMatch(cfg.c) /\ ~SomeEnabled(cfg.c))
             => cfg.validated = "no streams are enabled"

C13_Witness ==
    /\ Inspected("ffmpeg")
    /\ cfg.c.audio.crf = 5
    /\ cfg.c.video.encoder = "Video"
    /\ cfg.c.video.bitrate = 128
    /\ ~cfg.c.subtitle.enabled
    /\ cfg.validated = CrfError

\* the arguments of an invocation
Args == cfg.built.args

Count(args, x) == Cardinality({i \in 1 .. Len(args) : args[i] = x})
Pos(args, x) == CHOOSE i \in 1 .. Len(args) : args[i] = x

\* the group's selector, followed by name, occurs once and its drop flag never
Selects(args, sel, drop, name) ==
    /\ Count(args, sel) = 1
    /\ Count(args, drop) = 0
    /\ args[Pos(args, sel) + 1] = name

Drops(args, sel, drop) == Count(args, drop) = 1 /\ Count(args, sel) = 0

GroupFlag(args, opts, sel, drop) == IF opts.enabled THEN Pos(args, sel) ELSE Pos(args, drop)

NameOf(opts, kind) == IF opts.encoder = "None" THEN "copy" ELSE EncoderName(kind)

SpawnedBy(b, p) == {q \in 1 .. p : procs[q].bg = b}

\* C17: the i-th process a background task spawns is built from the i-th
\* stage of the list start() took, and current-stage is i when it is spawned.
C17_SpawnOrder ==
    \A p \in 1 .. Len(procs) :
        LET b == procs[p].bg
            i == Cardinality(SpawnedBy(b, p))
        IN  /\ procs[p].cmd.spec = bg[b].all[i]
            /\ procs[p].stage = i

\* the stdout task has just taken a line from the stream
LineRead == sp'.nout = sp.nout + 1

RecognizedKeys == {"frame", "fps", "bitrate", "total_size", "out_time_us"}

IsTelemetry(line) == Len(split(line)) = 2 /\ split(line)[1] \in RecognizedKeys

\* lines with a recognized key whose value is no number of the key's type
MalformedLines ==
    {"frame=1o", "fps=", "bitrate=garbage", "bitrate=N/A", "total_size=2k",
     "out_time_us="}

\* C15: reading a line with a recognized key and a value that does not parse
\* leaves every accumulated value unchanged and leaves the parser reading.
C15_MalformedValueIgnored ==
    [][(LineRead /\ sp'.last \in MalformedLines)
         => (sp'.local_buf = sp.local_buf /\ sp'.pc["stdout"] # "panicked")]_vars

Suspended(t) == sp.pc[t] \in {"await", "read"}
Ended(t) == sp.pc[t] \in {"done", "eof", "panicked"}

\* C16: a task that is suspended on a line of output or on the process exit,
\* or that has ended or panicked, does not hold the write guard of the
\* snapshot; when no task is between write() and the end of its guard's scope
\* the lock is free, so get_info() can take its read locks.
C16_NoLockAcrossAwait ==
    /\ \A t \in Tasks : (Suspended(t) \/ Ended(t)) => sp.lock # t
    /\ (\A t \in Tasks : Suspended(t) \/ Ended(t) \/ sp.pc[t] \in WantsLock \cup {"off", "spawn"})
         => sp.lock = "none"

C16_Witness ==
    /\ sp.child = "exited" /\ sp.code = 1
    /\ sp.pc = [task |-> "done", stdout |-> "read", stderr |-> "read"]
    /\ info.stdout # <<>>
    /\ Len(info.stderr) = MaxErr
    /\ sp.lock = "none"
    /\ out # NoInfo /\ out.stage = 1

\* C18: the counter advances only on lines with a recognized key; the first
\* flush of a stage that the counter drives happens on the 25th recognized
\* line; a counter-driven flush that follows a counter-driven flush happens 25
\* recognized lines after it.
C18_FlushEvery25th ==
    [][LineRead =>
         /\ (~IsTelemetry(sp'.last) /\ sp'.pc["stdout"] = "read") => sp'.ctr = sp.ctr
         /\ (sp'.pc["stdout"] = "w_flush" /\ sp'.cause = "counter"
               /\ sp.cause \in {"none", "counter"}) => sp'.since = FlushAfter + 1]_vars

LastLine(lines) == lines[Len(lines)]

LineDone == sp.nout > 0 /\ sp.pc["stdout"] \in {"read", "eof"}

\* C19 as claimed: when the stdout task has finished with a line that is not a
\* recognized key=value pair, the line is the last of the snapshot's stdout
\* lines and the pending buffer is empty.
C19_UnrecognizedLineSurfaced ==
    (LineDone /\ ~IsTelemetry(sp.last)) =>
        /\ info.stdout # <<>> /\ LastLine(info.stdout) = sp.last
        /\ sp.line_buf = <<>>

\* C19 as amended: when the stdout task has finished with a line that does not
\* split at '=' into exactly two parts, the line is the last of the snapshot's
\* stdout lines; a line of two parts with an unrecognized key is dropped and
\* changes neither the buffer nor the snapshot's stdout lines; the pending
\* buffer is empty whenever the task is between lines.
C19_NonPairLineSurfaced ==
    LineDone =>
        /\ sp.line_buf = <<>>
        /\ Len(split(sp.last)) # 2
             => (info.stdout # <<>> /\ LastLine(info.stdout) = sp.last)
        /\ (Len(split(sp.last)) = 2 /\ ~IsTelemetry(sp.last))
             => (info.stdout = <<>> \/ LastLine(info.stdout) # sp.last)

C19_Witness ==
    /\ LineDone
    /\ sp.last = "Press [q] to stop"
    /\ info.stdout = <<"Press [q] to stop">>
    /\ sp.line_buf = <<>>
    /\ sp.nout = 2
    /\ info.frame = 10

Pending == IF sp.pc["stderr"] \in {"w_push", "push"} THEN <<sp.line>> ELSE <<>>

\* C20: the snapshot's stderr lines are the lines read from stderr, in the
\* order read, but for the one line the stderr task has read and is writing:
\* a line is written before the next is read.
C20_StderrImmediate == info.stderr \o Pending = sp.err_read

C20_Witness ==
    /\ Len(info.stderr) = 2
    /\ info.stderr[1] # info.stderr[2]
    /\ info.stderr = sp.err_read
    /\ sp.pc["stderr"] = "read"

IsPrefix(a, b) == Len(a) <= Len(b) /\ SubSeq(b, 1, Len(a)) = a

Telemetry(r) ==
    [frame |-> r.frame, fps |-> r.fps, bitrate |-> r.bitrate,
     total_size |-> r.total_size, time |-> r.time]

\* C26: once the stdout task has seen the end of the stream, the snapshot's
\* telemetry fields equal the task's accumulator.
C26_FinalTelemetryFlushed ==
    sp.pc["stdout"] = "eof" => Telemetry(info) = sp.local_buf

\* C27: build() on an encoding configuration never reaches an unreachable!()
\* arm: it returns validate()'s error and no invocation, or, when validate()
\* accepts, an ffmpeg invocation.
C27_BuildNeverPanics ==
    Inspected("ffmpeg") =>
        /\ cfg.built.err # "panic"
        /\ cfg.built.err = cfg.validated
        /\ (cfg.validated = Ok) <=> (cfg.built.cmd = "ffmpeg")
        /\ ~KindsMatch(cfg.c) => cfg.built.err \in MismatchErrors

C27_Witness ==
    /\ Inspected("ffmpeg")
    /\ ~cfg.c.audio.enabled /\ cfg.c.audio.encoder = "Video"
    /\ cfg.c.video.enabled /\ cfg.c.video.encoder = "Video"
    /\ cfg.c.subtitle.enabled /\ cfg.c.subtitle.encoder = "None"
    /\ cfg.built.err = "audio cannot have an video or subtitle encoder"
    /\ cfg.built.cmd = "none"

\* C22: a successful start() records max_stages as the length of the stage
\* list it takes; once a start() has succeeded max_stages does not change;
\* max_stages is at least 1.
C22_TotalStagesFixed ==
    [][/\ info.max_stages >= 1 /\ info'.max_stages >= 1
       /\ StartOk => info'.max_stages = Len(commands)
       /\ bg # <<>> => info'.max_stages = info.max_stages]_vars

\* C23: when the media duration is below one second, get_info() returns
\* ((stage - 1) / max_stages) * 100.
C23_ZeroDurationDefined ==
    (out # NoInfo /\ as_secs(duration) = 0) =>
        /\ out.percent_complete.k = "num"
        /\ out.percent_complete.n * info.max_stages
             = (info.stage - 1) * 100 * out.percent_complete.d

\* a step of the reader of process p that changes the snapshot
ReaderWrites(p) ==
    /\ Len(procs') = Len(procs)
    /\ procs'[p] # procs[p]
    /\ info' # info

\* C25: a reader that changes the snapshot belongs to the process spawned for
\* the current stage (stated for a Session started once).
C25_OnlyCurrentStageWrites ==
    [][\A p \in 1 .. Len(procs) :
         (Len(bg) <= 1 /\ ReaderWrites(p)) => procs[p].stage = info.stage]_vars

\* C24: the background task of a started job eventually performs the forced
\* completion write, with every stage spawned, and current-stage then equals
\* total-stages.
C24_RunsToCompletion ==
    <>(sp.pc["task"] = "done" /\ sp.child = "exited" /\ info.stage = info.max_stages)


=============================================================================
